---- MODULE Spec2Model ----
(***************************************************************************)
(* The DevOps Pal chat client (frontend/src/App.jsx): the App component's  *)
(* state (sessionId, messages, input, loading), its two asynchronous       *)
(* handlers startSession and sendMessage, and the backend calls they have  *)
(* outstanding.  Every await of a handler is a point where the handler is  *)
(* suspended; the step that resumes it draws the backend's answer from a   *)
(* small set.                                                              *)
(***************************************************************************)
EXTENDS Integers, Sequences, FiniteSets, Bags, TLC

VARIABLES sessionId, messages, input, loading, calls, ev

vars == <<sessionId, messages, input, loading, calls, ev>>

(* ------------------------------ bounds --------------------------------- *)
MaxMsgs == 3
MaxCalls == 2

(* --------------------------- JavaScript values ------------------------- *)
Null == [t |-> "null"]
Undefined == [t |-> "undefined"]
JsString(s) == [t |-> "string", v |-> s]

Truthy(x) == x.t = "string" /\ x.v # ""

White == {" "}
\* the texts the input field takes: empty, blank, plain, padded
Inputs == {<<>>, <<" ">>, <<" ", " ">>, <<"a">>, <<" ", "a", " ">>}

RECURSIVE trimStart(_)
trimStart(s) == IF s # <<>> /\ Head(s) \in White THEN trimStart(Tail(s)) ELSE s

RECURSIVE trimEnd(_)
trimEnd(s) ==
  IF s # <<>> /\ s[Len(s)] \in White THEN trimEnd(SubSeq(s, 1, Len(s) - 1)) ELSE s

trim(s) == trimEnd(trimStart(s))

\* the text a sequence of characters spells
RECURSIVE Str(_)
Str(s) == IF s = <<>> THEN "" ELSE Head(s) \o Str(Tail(s))

(* ------------------------------ the backend ---------------------------- *)
SessionIds == {"s1", "s2"}
Replies == {"X", ""}
Statuses == {200, 500}
Ok(status) == status \in 200..299

NoData == [t |-> "none"]
StartBodies ==
  {[t |-> "object", session_id |-> v, response |-> Undefined] :
     v \in {JsString(s) : s \in SessionIds} \cup {Undefined}} \cup {Null}
ChatBodies ==
  {[t |-> "object", session_id |-> Undefined, response |-> v] :
     v \in {JsString(r) : r \in Replies} \cup {Undefined}} \cup {Null}
Bodies(kind) == IF kind = "start" THEN StartBodies ELSE ChatBodies

\* reading a property of null raises a TypeError
Throws(data) == data.t = "null"

(* --------------------------- outstanding calls ------------------------- *)
\* calls is the bag of the handler invocations suspended at an await
NoCall == [kind |-> "none"]
One(c) == SetToBag({c})
OutstandingIn(bag, kind) == {c \in BagToSet(bag) : c.kind = kind}
NumOutstandingIn(bag, kind) ==
  BagCardinality([c \in OutstandingIn(bag, kind) |-> CopiesIn(c, bag)])
Outstanding(kind) == OutstandingIn(calls, kind)
NumOutstanding(kind) == NumOutstandingIn(calls, kind)

StartCall == [kind |-> "start", pc |-> "fetch", status |-> 0]

\* the request body is built without the session identifier
ChatCall_noSession(sid, msg, n) ==
  [kind |-> "chat", pc |-> "fetch", status |-> 0,
   session_id |-> Undefined, message |-> msg, n0 |-> n]

ChatCall(sid, msg, n) ==
  [kind |-> "chat", pc |-> "fetch", status |-> 0,
   session_id |-> sid, message |-> msg, n0 |-> n]

Event(op, call, data) == [op |-> op, call |-> call, data |-> data, n |-> Len(messages)]

(* ------------------------------ the handlers --------------------------- *)
FALLBACK == "Sorry, I encountered an error. Please try again."

\* the message carries the trimmed text
userMsg_trimmed == [role |-> "user", content |-> Str(trim(input))]

userMsg == [role |-> "user", content |-> Str(input)]

\* the guard without its session test
skipSend_noSession == trim(input) = <<>>

skipSend == trim(input) = <<>> \/ ~Truthy(sessionId)

\* the user message is not appended at invocation
appendUser_late(msgs, m) == msgs

appendUser(msgs, m) == Append(msgs, m)

\* the reply is put in front of the transcript
appendReply_front(msgs, data) ==
  IF Truthy(data.response)
    THEN <<[role |-> "assistant", content |-> data.response.v]>> \o msgs
    ELSE msgs

\* the reply is tested for presence, not for truthiness
appendReply_present(msgs, data) ==
  IF data.response.t = "string"
    THEN Append(msgs, [role |-> "assistant", content |-> data.response.v])
    ELSE msgs

appendReply(msgs, data) ==
  IF Truthy(data.response)
    THEN Append(msgs, [role |-> "assistant", content |-> data.response.v])
    ELSE msgs

\* a catch block that only logs
catchSend_silent(msgs) == msgs

catchSend(msgs) == Append(msgs, [role |-> "assistant", content |-> FALLBACK])

\* the transcript is not cleared
startBody_keep(data) == [sessionId |-> data.session_id, messages |-> messages]

startBody(data) == [sessionId |-> data.session_id, messages |-> <<>>]

\* the catch block drops the session
catchStart_drop == [sessionId |-> Null, messages |-> messages]

catchStart == [sessionId |-> sessionId, messages |-> messages]

\* the flag is not cleared
finallyLoading_stuck == loading

finallyLoading == FALSE

Init ==
  /\ sessionId = Null
  /\ messages = <<>>
  /\ input = <<>>
  /\ loading = FALSE
  /\ calls = EmptyBag
  /\ ev = [op |-> "init", call |-> NoCall, data |-> NoData, n |-> 0]

setInput(v) ==
  /\ input' = v
  /\ ev' = Event("setInput", NoCall, NoData)
  /\ UNCHANGED <<sessionId, messages, loading, calls>>

startSession ==
  /\ BagCardinality(calls) < MaxCalls
  /\ loading' = TRUE
  /\ calls' = calls (+) One(StartCall)
  /\ ev' = Event("startSession", StartCall, NoData)
  /\ UNCHANGED <<sessionId, messages, input>>

sendMessage ==
  IF skipSend
    THEN /\ ev' = Event("sendMessage", NoCall, NoData)
         /\ UNCHANGED <<sessionId, messages, input, loading, calls>>
    ELSE LET c == ChatCall(sessionId, userMsg.content, Len(messages)) IN
         /\ BagCardinality(calls) < MaxCalls
         /\ Len(messages) + NumOutstanding("chat") + 2 <= MaxMsgs
         /\ messages' = appendUser(messages, userMsg)
         /\ loading' = TRUE
         /\ input' = <<>>
         /\ calls' = calls (+) One(c)
         /\ ev' = Event("sendMessage", c, NoData)
         /\ UNCHANGED sessionId

\* a handler that ends also aborts the chat requests still outstanding
afterSettle_abort(c) ==
  IF c.kind = "start" THEN EmptyBag ELSE calls (-) One(c)

\* the handler of call c ends; the other suspended handlers stay suspended
afterSettle(c) == calls (-) One(c)

\* the handler of call c leaves through its catch block and its finally block
Caught(c) ==
  /\ IF c.kind = "start"
       THEN /\ sessionId' = catchStart.sessionId
            /\ messages' = catchStart.messages
       ELSE /\ messages' = catchSend(messages)
            /\ UNCHANGED sessionId
  /\ loading' = finallyLoading
  /\ calls' = afterSettle(c)
  /\ UNCHANGED input

fetchRejected(c) ==
  /\ BagIn(c, calls)
  /\ c.pc = "fetch"
  /\ Caught(c)
  /\ ev' = Event("fetchRejected", c, NoData)

fetchResolved(c, status) ==
  /\ BagIn(c, calls)
  /\ c.pc = "fetch"
  /\ LET r == [c EXCEPT !.pc = "json", !.status = status] IN
     /\ ev' = Event("fetchResolved", r, NoData)
     /\ IF c.kind = "chat" /\ ~Ok(status)
          THEN Caught(c)
          ELSE /\ calls' = (calls (-) One(c)) (+) One(r)
               /\ UNCHANGED <<sessionId, messages, input, loading>>

jsonRejected(c) ==
  /\ BagIn(c, calls)
  /\ c.pc = "json"
  /\ Caught(c)
  /\ ev' = Event("jsonRejected", c, NoData)

jsonResolved(c, data) ==
  /\ BagIn(c, calls)
  /\ c.pc = "json"
  /\ data \in Bodies(c.kind)
  /\ ev' = Event("jsonResolved", c, data)
  /\ IF Throws(data)
       THEN Caught(c)
       ELSE /\ IF c.kind = "start"
                 THEN /\ sessionId' = startBody(data).sessionId
                      /\ messages' = startBody(data).messages
                 ELSE /\ messages' = appendReply(messages, data)
                      /\ UNCHANGED sessionId
            /\ loading' = finallyLoading
            /\ calls' = afterSettle(c)
            /\ UNCHANGED input

Next ==
  \/ \E v \in Inputs : setInput(v)
  \/ startSession
  \/ sendMessage
  \/ \E c \in BagToSet(calls) : fetchRejected(c)
  \/ \E c \in BagToSet(calls), status \in Statuses : fetchResolved(c, status)
  \/ \E c \in BagToSet(calls) : jsonRejected(c)
  \/ \E c \in BagToSet(calls), data \in StartBodies \cup ChatBodies : jsonResolved(c, data)

Spec == Init /\ [][Next]_vars

(* ---------------------- the rendered controls -------------------------- *)
\* the form is rendered only while a session identifier is held
formRendered == Truthy(sessionId)
\* the start buttons ignore the in-flight flag
startDisabled_never == FALSE

startDisabled == loading
inputDisabled == loading
\* the send button ignores the in-flight flag
sendDisabled_blankOnly == trim(input) = <<>>

sendDisabled == loading \/ trim(input) = <<>>

onClickStart == ~startDisabled /\ startSession
onChange(v) == formRendered /\ ~inputDisabled /\ setInput(v)
onKeyDownEnter == formRendered /\ ~inputDisabled /\ sendMessage
onSubmit == formRendered /\ ~sendDisabled /\ sendMessage

NextUI ==
  \/ \E v \in Inputs : onChange(v)
  \/ onClickStart
  \/ onKeyDownEnter
  \/ onSubmit
  \/ \E c \in BagToSet(calls) : fetchRejected(c)
  \/ \E c \in BagToSet(calls), status \in Statuses : fetchResolved(c, status)
  \/ \E c \in BagToSet(calls) : jsonRejected(c)
  \/ \E c \in BagToSet(calls), data \in StartBodies \cup ChatBodies : jsonResolved(c, data)

SpecUI == Init /\ [][NextUI]_vars

\* a suspended handler is resumed: its request or its body read settles
settle ==
  \E c \in BagToSet(calls) :
    \/ fetchRejected(c)
    \/ \E status \in Statuses : fetchResolved(c, status)
    \/ jsonRejected(c)
    \/ \E data \in StartBodies \cup ChatBodies : jsonResolved(c, data)

\* every issued request eventually settles
FairSpecUI == SpecUI /\ WF_vars(settle)

TypeOK ==
  /\ sessionId \in {Null, Undefined} \cup {JsString(s) : s \in SessionIds}
  /\ Len(messages) <= MaxMsgs
  /\ input \in Inputs
  /\ loading \in BOOLEAN

(* ------------------------------ properties ----------------------------- *)
IsBlank(s) == \A k \in 1..Len(s) : s[k] = " "
Absent(x) == x.t \in {"null", "undefined"}
IsPrefix(s, t) == Len(s) <= Len(t) /\ \A k \in 1..Len(s) : t[k] = s[k]
FallbackMsg ==
  [role |-> "assistant", content |-> "Sorry, I encountered an error. Please try again."]
\* the event e is the failure of a request: rejected by the transport,
\* answered with a non-success status, or answered with an undecodable body
TransportOrDecodeFailure(e) == e.op \in {"fetchRejected", "jsonRejected"}
ChatFailure(e) ==
  /\ e.call.kind = "chat"
  /\ \/ TransportOrDecodeFailure(e)
     \/ e.op = "fetchResolved" /\ ~Ok(e.call.status)
\* one outstanding call of the given kind has left the set of calls
Settles(kind) ==
  \E c \in Outstanding(kind) : calls' = calls (-) One(c)
StartSuccess(e) ==
  /\ e.op = "jsonResolved"
  /\ e.call.kind = "start"
  /\ Ok(e.call.status)
  /\ e.data.t = "object"
  /\ e.data.session_id.t = "string"
ChatAnswered(e) ==
  e.op = "jsonResolved" /\ e.call.kind = "chat" /\ e.data.t = "object"

\* C1: a start-session that resolves successfully with {session_id: s}
\* leaves the client holding s and an empty transcript, whatever was held.
C1_StartSuccessResets ==
  [][StartSuccess(ev') =>
       sessionId' = ev'.data.session_id /\ messages' = <<>>]_vars

C1_Witness ==
  /\ StartSuccess(ev)
  /\ ev.n > 0
  /\ sessionId = ev.data.session_id
  /\ messages = <<>>

\* C2: a send invoked with no session identifier held, or with an input
\* that is blank after trimming, issues no request and changes nothing.
C2_SendSkipIsNoOp ==
  [][(ev'.op = "sendMessage" /\ (Absent(sessionId) \/ IsBlank(input))) =>
       UNCHANGED <<sessionId, messages, input, loading, calls>>]_vars

C2_Witness ==
  /\ ev.op = "sendMessage"
  /\ ev.call = NoCall
  /\ Absent(sessionId)
  /\ ~IsBlank(input)
  /\ messages = <<>>

\* C3: a valid send appends exactly one user-role message at the end of the
\* transcript at invocation, while its request is still unsettled, and the
\* settlement of a chat request, whatever its outcome, keeps every message
\* the transcript holds.
C3_UserMsgAppendedAndKept ==
  [][/\ (ev'.op = "sendMessage" /\ ~Absent(sessionId) /\ ~IsBlank(input)) =>
          /\ Len(messages') = Len(messages) + 1
          /\ IsPrefix(messages, messages')
          /\ messages'[Len(messages')].role = "user"
          /\ \E c \in BagToSet(calls') :
                /\ c.kind = "chat"
                /\ c.pc = "fetch"
                /\ calls' = calls (+) One(c)
     /\ (ev'.call.kind = "chat" /\ ev'.op # "sendMessage") =>
          IsPrefix(messages, messages')]_vars

C3_Witness ==
  /\ ChatFailure(ev)
  /\ Len(messages) = ev.call.n0 + 2
  /\ messages[ev.call.n0 + 1] = [role |-> "user", content |-> ev.call.message]

\* C4: with the controls gating the handlers, a chat request answered with a
\* success status and a non-empty response X makes the transcript the one
\* held at invocation followed by [user m, assistant X].
C4_ReplyAppended ==
  [][(ChatAnswered(ev') /\ Truthy(ev'.data.response)) =>
       /\ Len(messages) = ev'.call.n0 + 1
       /\ messages[Len(messages)] = [role |-> "user", content |-> ev'.call.message]
       /\ messages' =
            Append(messages, [role |-> "assistant", content |-> ev'.data.response.v])
       /\ Settles("chat")]_vars

C4_Witness ==
  /\ ChatAnswered(ev)
  /\ Truthy(ev.data.response)
  /\ Len(messages) = ev.call.n0 + 2
  /\ messages[Len(messages)] = [role |-> "assistant", content |-> "X"]
  /\ messages[Len(messages) - 1].role = "user"

\* C5: a chat request that is rejected by the transport, answered with a
\* non-success status or answered with an undecodable body appends exactly
\* one assistant-role message, the fixed fallback text, and the send is over.
C5_FailureAppendsFallback ==
  [][ChatFailure(ev') =>
       /\ messages' = Append(messages, FallbackMsg)
       /\ Settles("chat")]_vars

C5_Witness ==
  /\ ChatFailure(ev)
  /\ ev.op = "fetchResolved"
  /\ Len(messages) >= 2
  /\ messages[Len(messages)] = FallbackMsg
  /\ messages[Len(messages) - 1].role = "user"

\* C6: with the controls gating the handlers, a chat request answered with a
\* success status and a body without a response, or with an empty one,
\* appends nothing: the transcript is the one held at invocation followed by
\* the user message.
C6_NoReplyAppendsNothing ==
  [][(ChatAnswered(ev') /\ ~Truthy(ev'.data.response)) =>
       /\ messages' = messages
       /\ Len(messages') = ev'.call.n0 + 1
       /\ messages'[Len(messages')] = [role |-> "user", content |-> ev'.call.message]
       /\ Settles("chat")]_vars

C6_Witness ==
  /\ ChatAnswered(ev)
  /\ ev.data.response = JsString("")
  /\ Len(messages) = ev.call.n0 + 1
  /\ messages[Len(messages)].role = "user"

\* C7: a start-session whose request is rejected by the transport or whose
\* body cannot be decoded leaves the session identifier and the transcript
\* as they were, as does its invocation.
C7_StartFailureKeepsState ==
  [][((ev'.call.kind = "start" /\ TransportOrDecodeFailure(ev'))
        \/ ev'.op = "startSession") =>
       UNCHANGED <<sessionId, messages>>]_vars

C7_Witness ==
  /\ ev.call.kind = "start"
  /\ ev.op = "jsonRejected"
  /\ Truthy(sessionId)
  /\ messages # <<>>
  /\ Outstanding("start") = {}

\* C8: a start-session answered with a non-2xx status, or with a decodable
\* body that has no session_id string, leaves the session identifier and the
\* transcript unchanged.
C8_StartNon2xxKeepsState ==
  [][(/\ ev'.op = "jsonResolved"
      /\ ev'.call.kind = "start"
      /\ ev'.data.t = "object"
      /\ (~Ok(ev'.call.status) \/ ev'.data.session_id.t # "string")) =>
       UNCHANGED <<sessionId, messages>>]_vars

\* C9 as stated: the in-flight flag is true only while the chat request of a
\* valid send is outstanding.
C9_FlagOnlyDuringSend == loading => Outstanding("chat") # {}

\* C9: the in-flight flag is true only while a backend call, a session start
\* or the chat request of a valid send, is outstanding.
C9_FlagOnlyDuringCall ==
  loading => Outstanding("chat") \cup Outstanding("start") # {}

C9_Witness ==
  /\ loading
  /\ Outstanding("start") # {}
  /\ Outstanding("chat") = {}

\* C10: with the controls gating the handlers, no step taken while the
\* in-flight flag is true issues a chat request or appends a user message,
\* and at most one chat exchange is outstanding.
C10_OneExchangeInFlight ==
  /\ [](NumOutstanding("chat") <= 1)
  /\ [][loading =>
          /\ NumOutstandingIn(calls', "chat") <= NumOutstanding("chat")
          /\ Len(messages') > Len(messages) =>
                messages'[Len(messages')].role # "user"]_vars

C10_Witness ==
  /\ loading
  /\ NumOutstanding("chat") = 1
  /\ formRendered
  /\ inputDisabled
  /\ sendDisabled
\* C11: when every issued request eventually settles, every start and every
\* valid send is followed by a state with no call outstanding and the
\* in-flight flag false, where the start control is enabled again.
C11_FlagEventuallyCleared ==
  (calls # EmptyBag) ~> (calls = EmptyBag /\ ~loading /\ ~startDisabled)

C11_Witness ==
  /\ ChatFailure(ev)
  /\ calls = EmptyBag
  /\ ~loading
  /\ ~startDisabled
\* C12: once a session identifier is held, no step leaves the client
\* without one.
C12_SessionNeverLost ==
  [][Truthy(sessionId) => Truthy(sessionId')]_vars

\* a valid send has just issued the chat call c
ValidSendIssued(c) ==
  /\ ev'.op = "sendMessage"
  /\ ev'.call = c
  /\ c.kind = "chat"
  /\ calls' = calls (+) One(c)

\* C13 as stated: the text a valid send appends to the transcript and puts
\* in the request body is the input text trimmed.
C13_SendsTrimmedText ==
  [][\A c \in BagToSet(calls') : ValidSendIssued(c) =>
       /\ c.message = Str(trim(input))
       /\ messages'[Len(messages')].content = Str(trim(input))]_vars

\* C13: the text a valid send appends to the transcript and puts in the
\* request body is the input text as it stands, untrimmed.
C13_SendsInputText ==
  [][\A c \in BagToSet(calls') : ValidSendIssued(c) =>
       /\ c.message = Str(input)
       /\ messages' = Append(messages, [role |-> "user", content |-> Str(input)])]_vars

C13_Witness ==
  /\ ev.op = "sendMessage"
  /\ ev.call.kind = "chat"
  /\ ev.call.message = " a "
  /\ messages[Len(messages)] = [role |-> "user", content |-> " a "]
\* C14: a start-session that succeeds leaves every outstanding chat request
\* outstanding, and a chat request that settles after the transcript was
\* reset still appends its assistant message, the reply or the fallback.
C14_StaleReplyStillApplied ==
  [][/\ StartSuccess(ev') =>
          \A c \in Outstanding("chat") : CopiesIn(c, calls') = CopiesIn(c, calls)
     /\ (ChatFailure(ev') /\ Len(messages) <= ev'.call.n0) =>
          messages' = Append(messages, FallbackMsg)
     /\ (ChatAnswered(ev') /\ Truthy(ev'.data.response)
           /\ Len(messages) <= ev'.call.n0) =>
          messages' =
            Append(messages, [role |-> "assistant", content |-> ev'.data.response.v])]_vars

C14_Witness ==
  /\ ChatAnswered(ev)
  /\ Truthy(ev.data.response)
  /\ ev.n = 0
  /\ ev.call.n0 = 0
  /\ messages = <<[role |-> "assistant", content |-> ev.data.response.v]>>
  /\ Truthy(sessionId)
  /\ sessionId # ev.call.session_id
C16_AppendOnly ==
  [][StartSuccess(ev') \/ IsPrefix(messages, messages')]_vars

\* C17: with the controls gating the handlers, every assistant-role message
\* of the transcript is immediately preceded by a user-role message, so the
\* transcript never begins with an assistant message.
C17_AssistantFollowsUser ==
  \A k \in 1..Len(messages) :
    messages[k].role = "assistant" => k > 1 /\ messages[k - 1].role = "user"

C17_Witness ==
  /\ Len(messages) = 3
  /\ messages[1].role = "user"
  /\ messages[2].role = "user"
  /\ messages[3].role = "assistant"
  /\ ~loading

\* C18: every chat request is issued with the session identifier held at the
\* invocation of its send, which is never absent, and keeps that identifier
\* until it settles, whatever happens to the held one.
C18_RequestCarriesSessionAtSend ==
  [][/\ (ev'.op = "sendMessage" /\ ev'.call.kind = "chat") =>
          /\ calls' = calls (+) One(ev'.call)
          /\ ev'.call.session_id = sessionId
          /\ ~Absent(sessionId)
     /\ \A r \in OutstandingIn(calls', "chat") :
          \/ ValidSendIssued(r)
          \/ \E c \in Outstanding("chat") :
               /\ c.session_id = r.session_id
               /\ c.message = r.message
               /\ c.n0 = r.n0]_vars

C18_Witness ==
  \E c \in Outstanding("chat") :
    /\ c.pc = "json"
    /\ Truthy(c.session_id)
    /\ Truthy(sessionId)
    /\ c.session_id # sessionId
====
